---- MODULE Spec2Model ----
(***************************************************************************)
(* Model of streamlit_app.py: the pipeline                                 *)
(*   load_sheet -> prepare_df -> classify_abc -> compute_policies          *)
(* of the "Distribuidora 2L - ABC & Politicas" dashboard.                  *)
(*                                                                         *)
(* Numbers.  Python floats are modelled as exact rationals [n, d] with a   *)
(* NaN element, so float rounding error is outside the model.  The daily   *)
(* dispersion Variacion_D is carried as its square (the sample variance),  *)
(* which is rational; every use of it in the source has the shape          *)
(* ceil(a + z * sigma * sqrt(m)), computed exactly by CeilPlusSqrt.        *)
(* Line 48 of the source closes the literal errors="coerce with a single   *)
(* quote; it is read as errors="coerce", as on line 44.                    *)
(***************************************************************************)
EXTENDS Integers, Sequences, FiniteSets

\* ------------------------------------------------------------------------
\* float arithmetic (exact rationals with NaN)
\* ------------------------------------------------------------------------
Abs(x) == IF x < 0 THEN -x ELSE x

RECURSIVE GCD(_, _)
GCD(a, b) == IF b = 0 THEN a ELSE GCD(b, a % b)

NaN == [nan |-> TRUE, n |-> 0, d |-> 1]

\* the float n/d, d > 0, kept in lowest terms
Rat(n, d) ==
    LET g == GCD(Abs(n), d)
    IN  IF n = 0 THEN [nan |-> FALSE, n |-> 0, d |-> 1]
        ELSE [nan |-> FALSE, n |-> n \div g, d |-> d \div g]

Num(k) == Rat(k, 1)

IsNaN(x) == x.nan

\* x + y; NaN propagates
FAdd(x, y) ==
    IF x.nan \/ y.nan THEN NaN
    ELSE LET g == GCD(x.d, y.d)
         IN  Rat(x.n * (y.d \div g) + y.n * (x.d \div g), (x.d \div g) * y.d)

FNeg(x) == IF x.nan THEN NaN ELSE [x EXCEPT !.n = -x.n]

FSub(x, y) == FAdd(x, FNeg(y))

\* x * y; NaN propagates (cross-cancelled before multiplying)
FMul(x, y) ==
    IF x.nan \/ y.nan THEN NaN
    ELSE IF x.n = 0 \/ y.n = 0 THEN Num(0)
    ELSE LET g1 == GCD(Abs(x.n), y.d)
             g2 == GCD(Abs(y.n), x.d)
         IN  Rat((x.n \div g1) * (y.n \div g2), (x.d \div g2) * (y.d \div g1))

\* x / y for y a non-zero number
FDiv(x, y) ==
    IF x.nan \/ y.nan THEN NaN
    ELSE FMul(x, IF y.n < 0 THEN [nan |-> FALSE, n |-> -y.d, d |-> -y.n]
                 ELSE [nan |-> FALSE, n |-> y.d, d |-> y.n])

\* comparisons: any comparison with NaN is False
FLe(x, y) == ~x.nan /\ ~y.nan /\ x.n * y.d <= y.n * x.d
FLt(x, y) == ~x.nan /\ ~y.nan /\ x.n * y.d < y.n * x.d
FGt(x, y) == FLt(y, x)

\* Python's max(a, b): b replaces a only when b > a, so max(1, nan) = 1
PyMax(a, b) == IF FGt(b, a) THEN b ELSE a

\* floor and ceiling of a number (not NaN)
Floor(x) == x.n \div x.d
Ceil(x) == -((-x.n) \div x.d)

\* int(x): truncation toward zero
Trunc(x) == IF x.n >= 0 THEN x.n \div x.d ELSE -((-x.n) \div x.d)

\* round(x): nearest integer, ties to the even one
RoundHalfEven(x) ==
    LET f == Floor(x)
        twice == 2 * (x.n - f * x.d)
    IN  IF twice < x.d THEN f
        ELSE IF twice > x.d THEN f + 1
        ELSE IF f % 2 = 0 THEN f ELSE f + 1

\* floor(sqrt(k)) for an integer k >= 0
RECURSIVE ISqrt(_)
ISqrt(k) ==
    IF k < 2 THEN k
    ELSE LET r == 2 * ISqrt(k \div 4)
         IN  IF (r + 1) * (r + 1) <= k THEN r + 1 ELSE r

\* int(round(math.sqrt(x))) for a number x >= 0
RoundSqrt(x) ==
    LET f == ISqrt(Floor(x))
        \* sqrt(x) against f + 1/2, i.e. 4x against (2f+1)^2
        lhs == 4 * x.n
        rhs == (2 * f + 1) * (2 * f + 1) * x.d
    IN  IF lhs < rhs THEN f
        ELSE IF lhs > rhs THEN f + 1
        ELSE IF f % 2 = 0 THEN f ELSE f + 1

\* k >= a + sqrt(c), for numbers a and c >= 0
AtLeastSum(k, a, c) ==
    LET diff == k * a.d - a.n
    IN  diff >= 0 /\ diff * diff * c.d >= c.n * a.d * a.d

\* math.ceil(a + sqrt(c)): the least integer k >= a + sqrt(c)
RECURSIVE CeilFrom(_, _, _)
CeilFrom(k, a, c) == IF AtLeastSum(k, a, c) THEN k ELSE CeilFrom(k + 1, a, c)

CeilPlusSqrt(a, c) == CeilFrom(Ceil(a), a, c)

\* ------------------------------------------------------------------------
\* text cells and pd.to_numeric
\* ------------------------------------------------------------------------
\* a cell of the sheet is a sequence of characters (ws.get_all_values())
Digits == <<"0", "1", "2", "3", "4", "5", "6", "7", "8", "9">>

IsDigit(c) == \E k \in 1..10 : Digits[k] = c

DigitVal(c) == (CHOOSE k \in 1..10 : Digits[k] = c) - 1

\* .str.replace(",", "").str.replace(" ", "")
StripSeparators(s) == SelectSeq(s, LAMBDA c : c \notin {",", " "})

RECURSIVE DigitsValue(_)
DigitsValue(s) ==
    IF s = <<>> THEN 0
    ELSE 10 * DigitsValue(SubSeq(s, 1, Len(s) - 1)) + DigitVal(s[Len(s)])

RECURSIVE Pow10(_)
Pow10(k) == IF k = 0 THEN 1 ELSE 10 * Pow10(k - 1)

\* pd.to_numeric(..., errors="coerce") on one string: an optional sign, digits
\* with at most one decimal point and at least one digit; anything else is NaN
ToNumeric(s) ==
    LET neg == s # <<>> /\ s[1] = "-"
        body == IF s # <<>> /\ s[1] \in {"-", "+"} THEN Tail(s) ELSE s
        dots == {k \in 1..Len(body) : body[k] = "."}
        digs == SelectSeq(body, IsDigit)
        ok == /\ Cardinality(dots) <= 1
              /\ Len(digs) >= 1
              /\ Len(digs) + Cardinality(dots) = Len(body)
        frac == IF dots = {} THEN 0 ELSE Len(body) - (CHOOSE k \in dots : TRUE)
        v == Rat(DigitsValue(digs), Pow10(frac))
    IN  IF ~ok THEN NaN ELSE IF neg THEN FNeg(v) ELSE v

\* pd.to_numeric(col.str.replace(",", "").str.replace(" ", ""), errors="coerce")
ParseCell(s) == ToNumeric(StripSeparators(s))

\* .fillna(0)
FillNa0(x) == IF x.nan THEN Num(0) ELSE x

\* ------------------------------------------------------------------------
\* configuration (sidebar defaults and keyword defaults)
\* ------------------------------------------------------------------------
\* ordering_cost, "Costo por orden (K)"
ordering_cost == 30000

\* review_T_B, "Periodo revision B (dias)"
review_T_B == 5

\* the Lead_Time that prepare_df fills in when the column is absent
DefaultLeadTime == 3

\* holding_rate = 0.20
holding_rate == Rat(20, 100)

\* zA = norm.ppf(0.98) = 2.0537..., zB = norm.ppf(0.95) = 1.6448..., to two
\* decimals (scipy's quantile function is outside the repository)
zA == Rat(205, 100)
zB == Rat(164, 100)

\* (a_pct, b_pct) of classify_abc: the keyword defaults 0.80 / 0.95 that the
\* main script uses, and a second pair a caller may pass
DefaultCuts == [a |-> Rat(80, 100), b |-> Rat(95, 100)]
Cutoffs == {DefaultCuts, [a |-> Rat(50, 100), b |-> Rat(100, 100)]}

\* ------------------------------------------------------------------------
\* the sheet returned by load_sheet
\* ------------------------------------------------------------------------
\* largest number of products in a sheet
MaxRows == 3

\* product rows a sheet is made of: five Dia_ columns and the text of the
\* optional columns Costo_unitario, Stock_actual and Lead_Time
Prod1 ==
    [nombre |-> "P1",
     dias |-> << <<"1","0">>, <<"1","0">>, <<"1","0">>, <<"1","0">>, <<"1","0">> >>,
     Costo_unitario |-> <<"1","0","0">>,
     Stock_actual |-> <<"1",",","0","0","0">>,
     Lead_Time |-> <<"3">>]

Prod2 ==
    [nombre |-> "P2",
     dias |-> << <<"1">>, <<"1">>, <<"1">>, <<"1">>, <<"1">> >>,
     Costo_unitario |-> <<"5","0">>,
     Stock_actual |-> <<>>,
     Lead_Time |-> <<"4">>]

Prod3 ==
    [nombre |-> "P3",
     dias |-> << <<"0">>, <<"0">>, <<"0">>, <<"0">>, <<"0">> >>,
     Costo_unitario |-> <<"1","0">>,
     Stock_actual |-> <<"0">>,
     Lead_Time |-> <<"1">>]

Prod4 ==
    [nombre |-> "P4",
     dias |-> << <<"6">>, <<"1","0">>, <<"6">>, <<"1","0">>, <<"8">> >>,
     Costo_unitario |-> <<"a","b","c">>,
     Stock_actual |-> <<"9",".","5">>,
     Lead_Time |-> <<"4">>]

Prod5 ==
    [nombre |-> "P5",
     dias |-> << <<"9",".","5">>, <<>>, <<"a","b","c">>, <<" ">>, <<"0",".","5">> >>,
     Costo_unitario |-> <<"0">>,
     Stock_actual |-> <<" ","7">>,
     Lead_Time |-> <<"a","b","c">>]

Prod6 ==
    [nombre |-> "P6",
     dias |-> << <<"-","5">>, <<"0">>, <<"0">>, <<"0">>, <<"0">> >>,
     Costo_unitario |-> <<"2",".","5">>,
     Stock_actual |-> <<"a","b","c">>,
     Lead_Time |-> <<"0">>]

Prod7 ==
    [nombre |-> "P7",
     dias |-> << <<"0",".","5">>, <<"0">>, <<"0">>, <<"0">>, <<"0">> >>,
     Costo_unitario |-> <<"1",",","5">>,
     Stock_actual |-> <<"2","0">>,
     Lead_Time |-> <<"-","1">>]

Products == {Prod1, Prod2, Prod3, Prod4, Prod5, Prod6, Prod7}

\* which of the optional columns the sheet has
Columns == [Costo_unitario : BOOLEAN, Stock_actual : BOOLEAN, Lead_Time : BOOLEAN]

\* the rows of a sheet: products in sheet order, codigo = position.  A sheet
\* has the columns codigo, nombre, Dia_1..Dia_5 and any of the three optional
\* ones; total_mes, d_Promedio and Variacion_D are always derived
SheetRows(f) ==
    [k \in DOMAIN f |->
        [codigo |-> k, nombre |-> f[k].nombre, dias |-> f[k].dias,
         Costo_unitario |-> f[k].Costo_unitario,
         Stock_actual |-> f[k].Stock_actual,
         Lead_Time |-> f[k].Lead_Time]]

Sheets ==
    {[cols |-> c, data |-> SheetRows(f)] :
        c \in Columns, f \in UNION {[1..n -> Products] : n \in 1..MaxRows}}

\* ------------------------------------------------------------------------
\* prepare_df
\* ------------------------------------------------------------------------
RECURSIVE FSum(_)
FSum(xs) == IF xs = <<>> THEN Num(0) ELSE FAdd(FSum(Tail(xs)), Head(xs))

\* for c in day_cols: to_numeric(...).fillna(0)
DayValues(texts) == [k \in DOMAIN texts |-> FillNa0(ParseCell(texts[k]))]

\* df[day_cols].sum(axis=1)
RowTotal(vals) == FSum(vals)

\* df[day_cols].mean(axis=1).fillna(0)
RowMean(vals) ==
    IF Len(vals) = 0 THEN Num(0) ELSE FDiv(FSum(vals), Num(Len(vals)))

\* the square of df[day_cols].std(axis=1).fillna(0): the sample variance
\* (ddof = 1), 0 with fewer than two observations
RowVariance(vals) ==
    IF Len(vals) < 2 THEN Num(0)
    ELSE LET m == FDiv(FSum(vals), Num(Len(vals)))
             sq == [k \in DOMAIN vals |->
                       FMul(FSub(vals[k], m), FSub(vals[k], m))]
         IN  FDiv(FSum(sq), Num(Len(vals) - 1))

\* one row of the table prepare_df returns; the Costo_unitario field is read
\* only through UnitCost, which knows whether the sheet has the column
PreparedRow(r, cols) ==
    LET vals == DayValues(r.dias)
    IN  [codigo |-> r.codigo,
         nombre |-> r.nombre,
         dias |-> vals,
         Costo_unitario |->
             IF cols.Costo_unitario THEN ParseCell(r.Costo_unitario) ELSE NaN,
         total_mes |-> RowTotal(vals),
         d_Promedio |-> RowMean(vals),
         Variacion_D2 |-> RowVariance(vals),
         Lead_Time |->
             IF cols.Lead_Time THEN ParseCell(r.Lead_Time)
             ELSE Num(DefaultLeadTime),
         Stock_actual |->
             IF cols.Stock_actual THEN ParseCell(r.Stock_actual) ELSE NaN]

prepare_df(sh) == [k \in DOMAIN sh.data |-> PreparedRow(sh.data[k], sh.cols)]

\* ------------------------------------------------------------------------
\* classify_abc
\* ------------------------------------------------------------------------
\* the row orders df.sort_values(value_col, ascending=False) can return: the
\* default kind is quicksort, which is not stable, so rows of equal value may
\* come out in either order
SortOrders(df) ==
    {p \in [DOMAIN df -> DOMAIN df] :
        /\ \A i, j \in DOMAIN df : i # j => p[i] # p[j]
        /\ \A i, j \in DOMAIN df :
              i < j => ~FLt(df[p[i]].total_mes, df[p[j]].total_mes)}

\* df_sorted[value_col] / max(df_sorted[value_col].sum(), 1)
Pct(value, total) == FDiv(value, PyMax(total, Num(1)))

\* .cumsum()
RECURSIVE CumSum(_)
CumSum(xs) ==
    IF xs = <<>> THEN <<>>
    ELSE LET front == CumSum(SubSeq(xs, 1, Len(xs) - 1))
         IN  Append(front,
                    IF front = <<>> THEN xs[Len(xs)]
                    ELSE FAdd(front[Len(front)], xs[Len(xs)]))

\* lab with the cutoffs exclusive: a share equal to a cutoff falls in the next tier
lab_Exclusive(x, a_pct, b_pct) ==
    IF FLt(x, a_pct) THEN "A" ELSE IF FLt(x, b_pct) THEN "B" ELSE "C"

\* lab(x)
lab(x, a_pct, b_pct) ==
    IF FLe(x, a_pct) THEN "A" ELSE IF FLe(x, b_pct) THEN "B" ELSE "C"

\* classify_abc, for the order p the sort returned
classify_abc(df, p, cut) ==
    LET sorted == [k \in DOMAIN df |-> df[p[k]]]
        total == FSum([k \in DOMAIN df |-> sorted[k].total_mes])
        pct == [k \in DOMAIN df |-> Pct(sorted[k].total_mes, total)]
        acum == CumSum(pct)
    IN  [k \in DOMAIN df |->
            [row |-> sorted[k], pct |-> pct[k], pct_acum |-> acum[k],
             Clase_ABC |-> lab(acum[k], cut.a, cut.b)]]

\* ------------------------------------------------------------------------
\* compute_policies, one row
\* ------------------------------------------------------------------------
\* float(r.get("Costo_unitario", 0.0)): 0.0 when the sheet has no such column
UnitCost(r, cols) == IF cols.Costo_unitario THEN r.Costo_unitario ELSE Num(0)

\* the order quantity with the factor 2 of the EOQ formula dropped
OrderQuantityA_NoTwo(d, cost) ==
    LET D_annual == FMul(d, Num(365))
        h == FMul(holding_rate, cost)
    IN  IF FGt(h, Num(0)) /\ FGt(D_annual, Num(0))
        THEN RoundSqrt(FDiv(FMul(D_annual, Num(ordering_cost)), h))
        ELSE RoundHalfEven(PyMax(Num(1), FMul(d, Num(30))))

\* tier A, entry["Q_or_S"] = int(round(Q)): Q = sqrt(2 * D_annual * ordering_cost / h)
\* if h > 0 and D_annual > 0, else Q = max(1, d * 30)
OrderQuantityA(d, cost) ==
    LET D_annual == FMul(d, Num(365))
        h == FMul(holding_rate, cost)
    IN  IF FGt(h, Num(0)) /\ FGt(D_annual, Num(0))
        THEN RoundSqrt(FDiv(FMul(FMul(Num(2), D_annual), Num(ordering_cost)), h))
        ELSE RoundHalfEven(PyMax(Num(1), FMul(d, Num(30))))

\* the square of ss = z * sigma * math.sqrt(max(1, days))
SafetySq(z, variance, days) ==
    FMul(FMul(FMul(z, z), variance), PyMax(Num(1), days))

\* math.ceil raises ValueError on NaN; it is called outside the try blocks
CeilRaises(demand, ssq) == IsNaN(demand) \/ IsNaN(ssq)

\* tier A, entry["Alert"]: the except branch needs np.isnan to raise, which it
\* does not on the floats prepare_df leaves in Stock_actual
AlertA(stock, ROP) ==
    IF ~IsNaN(stock) /\ FLe(stock, Num(ROP))
    THEN "PEDIR AHORA (stock <= ROP)"
    ELSE "OK"

\* tier B, order_qty = max(0, S - float(stock)) for a stock that is not NaN
OrderQty(S, stock) == PyMax(Num(0), FSub(Num(S), stock))

\* the review order without the max(0, .) clamp
OrderIfReview_NoClamp(S, stock) ==
    IF IsNaN(stock) THEN NaN ELSE Num(Trunc(FSub(Num(S), stock)))

\* tier B, entry["Order_if_review"]: int(order_qty), NaN for an unknown stock
OrderIfReview(S, stock) ==
    IF IsNaN(stock) THEN NaN ELSE Num(Trunc(OrderQty(S, stock)))

\* tier B, entry["Alert"]
AlertB(S, stock) ==
    IF IsNaN(stock) THEN "SIN STOCK ACTUAL"
    ELSE IF FGt(OrderQty(S, stock), Num(0)) THEN "PEDIR EN REVISION"
    ELSE "NO PEDIR"

\* the tier C quantity without its floor of 1
ReorderQtyC_NoFloor(d) == Trunc(FMul(d, Num(7)))

\* tier C, entry["Q_or_S"] = int(max(1, d * 7))
ReorderQtyC(d) == Trunc(PyMax(Num(1), FMul(d, Num(7))))

\* tier C, entry["ROP"] = int(max(0, d * 3))
ReorderPointC(d) == Trunc(PyMax(Num(0), FMul(d, Num(3))))

\* the days the safety stock covers: LT for tier A, LT + T for tier B
CoverDays(c) ==
    IF c.Clase_ABC = "A" THEN c.row.Lead_Time
    ELSE FAdd(c.row.Lead_Time, Num(review_T_B))

CoverZ(c) == IF c.Clase_ABC = "A" THEN zA ELSE zB

\* the loop body raises on classified row c (tiers A and B only)
RowRaises(c) ==
    /\ c.Clase_ABC \in {"A", "B"}
    /\ CeilRaises(FMul(c.row.d_Promedio, CoverDays(c)),
                  SafetySq(CoverZ(c), c.row.Variacion_D2, CoverDays(c)))

\* the entry the loop body appends for classified row c
PolicyEntry(c, cols) ==
    LET r == c.row
        d == r.d_Promedio
        stock == r.Stock_actual
        ssq == SafetySq(CoverZ(c), r.Variacion_D2, CoverDays(c))
        level == CeilPlusSqrt(FMul(d, CoverDays(c)), ssq)
        ss == CeilPlusSqrt(Num(0), ssq)
        base == [codigo |-> r.codigo, nombre |-> r.nombre,
                 Clase_ABC |-> c.Clase_ABC, pct_acum |-> c.pct_acum,
                 total_mes |-> r.total_mes, d_Promedio |-> d,
                 Costo_unitario |-> UnitCost(r, cols),
                 Lead_Time |-> r.Lead_Time, Stock_actual |-> stock]
    IN  IF c.Clase_ABC = "A" THEN
            [base |-> base, Policy |-> "Revision Continua (Q)",
             Q_or_S |-> Num(OrderQuantityA(d, UnitCost(r, cols))),
             ROP |-> Num(level), SS |-> Num(ss), Order_if_review |-> NaN,
             Alert |-> AlertA(stock, level)]
        ELSE IF c.Clase_ABC = "B" THEN
            [base |-> base, Policy |-> "Revision Periodica (T=5d)",
             Q_or_S |-> Num(level), ROP |-> NaN, SS |-> Num(ss),
             Order_if_review |-> OrderIfReview(level, stock),
             Alert |-> AlertB(level, stock)]
        ELSE
            [base |-> base, Policy |-> "Min-Max (baja prioridad)",
             Q_or_S |-> Num(ReorderQtyC(d)), ROP |-> Num(ReorderPointC(d)),
             SS |-> NaN, Order_if_review |-> NaN,
             Alert |-> "NO APLICADO (C)"]

VARIABLES sheet, cuts, pc, df_prep, df_abc, rows, df_pols

vars == <<sheet, cuts, pc, df_prep, df_abc, rows, df_pols>>

Init ==
    /\ sheet \in Sheets
    /\ cuts \in Cutoffs
    /\ pc = "loaded"
    /\ df_prep = <<>>
    /\ df_abc = <<>>
    /\ rows = <<>>
    /\ df_pols = <<>>

\* df_prep, day_cols = prepare_df(df_raw.copy(), day_prefix=day_prefix)
PrepareDf ==
    /\ pc = "loaded"
    /\ df_prep' = prepare_df(sheet)
    /\ pc' = "prepared"
    /\ UNCHANGED <<sheet, cuts, df_abc, rows, df_pols>>

\* df_abc = classify_abc(df_prep, value_col="total_mes")
ClassifyAbc ==
    /\ pc = "prepared"
    /\ \E p \in SortOrders(df_prep) : df_abc' = classify_abc(df_prep, p, cuts)
    /\ pc' = "classified"
    /\ UNCHANGED <<sheet, cuts, df_prep, rows, df_pols>>

\* compute_policies: one pass of "for _, r in df.iterrows()" ending in
\* rows.append(entry)
PolicyRow ==
    /\ pc = "classified"
    /\ Len(rows) < Len(df_abc)
    /\ ~RowRaises(df_abc[Len(rows) + 1])
    /\ rows' = Append(rows, PolicyEntry(df_abc[Len(rows) + 1], sheet.cols))
    /\ UNCHANGED <<sheet, cuts, pc, df_prep, df_abc, df_pols>>

\* compute_policies: a pass whose math.ceil raises; nothing catches the
\* ValueError, so the call and the script end without a table
PolicyRaise ==
    /\ pc = "classified"
    /\ Len(rows) < Len(df_abc)
    /\ RowRaises(df_abc[Len(rows) + 1])
    /\ pc' = "raised"
    /\ UNCHANGED <<sheet, cuts, df_prep, df_abc, rows, df_pols>>

\* compute_policies: df_out = pd.DataFrame(rows); return df_out
Return ==
    /\ pc = "classified"
    /\ Len(rows) = Len(df_abc)
    /\ df_pols' = rows
    /\ pc' = "returned"
    /\ UNCHANGED <<sheet, cuts, df_prep, df_abc, rows>>

Next == PrepareDf \/ ClassifyAbc \/ PolicyRow \/ PolicyRaise \/ Return

Spec == Init /\ [][Next]_vars

\* ------------------------------------------------------------------------
\* properties
\* ------------------------------------------------------------------------
Classified == pc \in {"classified", "returned", "raised"}

\* the entries compute_policies has appended for rows of tier t
EntriesOf(t) == {k \in DOMAIN rows : rows[k].base.Clase_ABC = t}

\* x <= y on numbers, by cross-multiplication
LeqNum(x, y) == x.n * y.d <= y.n * x.d

\* C1: in the table classify_abc returns, every row's tier is decided by its
\* own cumulative share: A if the share is <= a_pct, else B if it is <= b_pct,
\* else C; a share equal to a cutoff gets the lower letter.
C1_TierFromShare ==
    \A k \in DOMAIN df_abc :
        LET x == df_abc[k].pct_acum
            t == df_abc[k].Clase_ABC
        IN  /\ ~x.nan
            /\ t = "A" <=> LeqNum(x, cuts.a)
            /\ t = "B" <=> (~LeqNum(x, cuts.a) /\ LeqNum(x, cuts.b))
            /\ t = "C" <=> ~LeqNum(x, cuts.b)

\* a table with one row exactly on a_pct (tier A) and one exactly on b_pct (tier B)
C1_Witness ==
    \E j, k \in DOMAIN df_abc :
        /\ df_abc[j].pct_acum = cuts.a /\ df_abc[j].Clase_ABC = "A"
        /\ df_abc[k].pct_acum = cuts.b /\ df_abc[k].Clase_ABC = "B"

\* the alert C2 states for a tier A entry
C2_Alert(e) ==
    IF e.base.Stock_actual.nan THEN "SIN STOCK REA"
    ELSE IF LeqNum(e.base.Stock_actual, e.ROP)
    THEN "PEDIR AHORA (stock <= ROP)"
    ELSE "OK"

\* C2: every tier A entry's alert is "order now" for a known stock <= ROP, "ok"
\* for a known stock > ROP and the stock-unknown sentinel for an unknown
\* stock, with ROP and SS computed in all three cases.
C2_AlertThreeWay ==
    \A k \in EntriesOf("A") :
        /\ ~rows[k].ROP.nan /\ ~rows[k].SS.nan
        /\ rows[k].Alert = C2_Alert(rows[k])

\* C3: a failure in one row is confined to it: compute_policies never ends
\* without a table, and the table it returns has one row per input row.
C3_RowFailureConfined ==
    /\ pc # "raised"
    /\ pc = "returned" => Len(df_pols) = Len(sheet.data)

\* S - stock for a tier B entry with a known stock
C4_Gap(e) == FSub(e.Q_or_S, e.base.Stock_actual)

\* C4 as stated: a tier B entry with a known stock reports exactly
\* max(0, S - stock), with "order at review" iff that is > 0 and "do not order"
\* otherwise; with an unknown stock the quantity is absent and the alert is
\* "stock unknown".
C4_OrderExact ==
    \A k \in EntriesOf("B") :
        LET e == rows[k]
        IN  IF e.base.Stock_actual.nan
            THEN e.Order_if_review.nan /\ e.Alert = "SIN STOCK ACTUAL"
            ELSE /\ e.Order_if_review = PyMax(Num(0), C4_Gap(e))
                 /\ e.Alert = IF C4_Gap(e).n > 0 THEN "PEDIR EN REVISION"
                              ELSE "NO PEDIR"

\* C4 amended: a tier B entry with a known stock reports max(0, S - stock)
\* truncated to an integer q (q <= max(0, S - stock) < q + 1), with "order at
\* review" iff S - stock > 0 and "do not order" otherwise; with an unknown
\* stock the quantity is absent and the alert is "stock unknown".
C4_OrderTruncated ==
    \A k \in EntriesOf("B") :
        LET e == rows[k]
            want == PyMax(Num(0), C4_Gap(e))
            q == e.Order_if_review
        IN  IF e.base.Stock_actual.nan
            THEN q.nan /\ e.Alert = "SIN STOCK ACTUAL"
            ELSE /\ ~q.nan /\ q.d = 1
                 /\ q.n * want.d <= want.n /\ want.n < (q.n + 1) * want.d
                 /\ e.Alert = IF C4_Gap(e).n > 0 THEN "PEDIR EN REVISION"
                              ELSE "NO PEDIR"

\* tier B entries of all four kinds: a fractional gap, an order, no order,
\* and an unknown stock
C4_Witness ==
    /\ \E k \in EntriesOf("B") :
          /\ ~rows[k].base.Stock_actual.nan
          /\ C4_Gap(rows[k]).d > 1 /\ C4_Gap(rows[k]).n > 0
    /\ \E k \in EntriesOf("B") : rows[k].Alert = "NO PEDIR"
    /\ \E k \in EntriesOf("B") : rows[k].base.Stock_actual.nan

\* no product sold a negative quantity on any day
NoNegativeSales ==
    \A k \in DOMAIN df_prep : \A j \in DOMAIN df_prep[k].dias :
        df_prep[k].dias[j].n >= 0

\* the sum of the value column of the classified table
C5_Total == FSum([k \in DOMAIN df_abc |-> df_abc[k].row.total_mes])

\* C5: the last cumulative share is 1 whenever the value total is non-zero, and
\* every share and cumulative share is 0 when the total is zero (checked on
\* tables without negative sales, where C10's divergence plays no part).
C5_SharesSumToOne ==
    (Classified /\ NoNegativeSales) =>
        IF C5_Total.n # 0
        THEN df_abc[Len(df_abc)].pct_acum = Num(1)
        ELSE \A k \in DOMAIN df_abc :
                df_abc[k].pct = Num(0) /\ df_abc[k].pct_acum = Num(0)

\* C6: along the classified table the cumulative share never decreases, so no
\* A row follows a B or C row and no B row follows a C row.
C6_CumulativeMonotone ==
    \A j, k \in DOMAIN df_abc :
        j < k =>
            /\ LeqNum(df_abc[j].pct_acum, df_abc[k].pct_acum)
            /\ ~(df_abc[k].Clase_ABC = "A" /\ df_abc[j].Clase_ABC \in {"B", "C"})
            /\ ~(df_abc[k].Clase_ABC = "B" /\ df_abc[j].Clase_ABC = "C")

\* C7: the classified table is in descending order of value and rows of equal
\* value keep their input order.
C7_StableDescending ==
    \A j, k \in DOMAIN df_abc :
        j < k =>
            /\ LeqNum(df_abc[k].row.total_mes, df_abc[j].row.total_mes)
            /\ df_abc[k].row.total_mes = df_abc[j].row.total_mes
                  => df_abc[j].row.codigo < df_abc[k].row.codigo

\* the scenario of C8: products with Dia_1..Dia_5 = 10.., 1.., 0.. and unit
\* costs 100, 50, 10, classified with the default cutoffs
C8_Scenario ==
    /\ sheet.data = SheetRows(<<Prod1, Prod2, Prod3>>)
    /\ sheet.cols.Costo_unitario
    /\ cuts = DefaultCuts

\* the entry of product `codigo` in the returned table
C8_Entry(codigo) ==
    df_pols[CHOOSE k \in DOMAIN df_pols : df_pols[k].base.codigo = codigo]

\* C8 as stated: the scenario gives product 1 total 50 and tier A, and
\* product 3 tier C with reorder quantity 1.
C8_ScenarioTierA ==
    (C8_Scenario /\ pc = "returned") =>
        /\ C8_Entry(1).base.total_mes = Num(50)
        /\ C8_Entry(1).base.Clase_ABC = "A"
        /\ C8_Entry(3).base.Clase_ABC = "C"
        /\ C8_Entry(3).Q_or_S = Num(1)

\* C8 amended: the scenario never raises and gives product 1 total 50 and
\* tier B (its cumulative share 50/55 is above 0.80), and product 3 tier C
\* with reorder quantity 1.
C8_ScenarioTierB ==
    C8_Scenario =>
        /\ pc # "raised"
        /\ pc = "returned" =>
              /\ C8_Entry(1).base.total_mes = Num(50)
              /\ C8_Entry(1).base.pct_acum = Rat(50, 55)
              /\ C8_Entry(1).base.Clase_ABC = "B"
              /\ C8_Entry(3).base.Clase_ABC = "C"
              /\ C8_Entry(3).Q_or_S = Num(1)

\* the scenario has run to the end
C8_Witness == C8_Scenario /\ pc = "returned" /\ Len(df_pols) = 3

\* h > 0 and D > 0 for a tier A entry
C9_Eoq(e) ==
    /\ FGt(FMul(holding_rate, e.base.Costo_unitario), Num(0))
    /\ FGt(FMul(e.base.d_Promedio, Num(365)), Num(0))

\* 2 * D * K / h for a tier A entry
C9_Radicand(e) ==
    FDiv(FMul(FMul(Num(2 * 365), e.base.d_Promedio), Num(ordering_cost)),
         FMul(holding_rate, e.base.Costo_unitario))

\* max(1, d * 30) for a tier A entry
C9_Fallback(e) == PyMax(Num(1), FMul(e.base.d_Promedio, Num(30)))

\* C9 as stated: a tier A entry reports exactly sqrt(2DK/h) when h > 0 and
\* D > 0, and max(1, d * 30) otherwise.
C9_QuantityExact ==
    \A k \in EntriesOf("A") :
        LET e == rows[k]
            q == e.Q_or_S
        IN  IF C9_Eoq(e)
            THEN q.n * q.n * C9_Radicand(e).d = C9_Radicand(e).n * q.d * q.d
            ELSE q = C9_Fallback(e)

\* C9 amended: a tier A entry reports an integer within 1/2 of sqrt(2DK/h)
\* when h > 0 and D > 0, and within 1/2 of max(1, d * 30) otherwise.
C9_QuantityRounded ==
    \A k \in EntriesOf("A") :
        LET e == rows[k]
            q == e.Q_or_S.n
            x == C9_Radicand(e)
            f == C9_Fallback(e)
        IN  /\ ~e.Q_or_S.nan /\ e.Q_or_S.d = 1
            /\ IF C9_Eoq(e)
               THEN /\ q >= 1
                    /\ (2 * q - 1) * (2 * q - 1) * x.d <= 4 * x.n
                    /\ 4 * x.n <= (2 * q + 1) * (2 * q + 1) * x.d
               ELSE /\ (2 * q - 1) * f.d <= 2 * f.n
                    /\ 2 * f.n <= (2 * q + 1) * f.d

\* tier A entries on both branches: an EOQ that is not a whole number, and a
\* fallback for a missing (NaN) unit cost
C9_Witness ==
    /\ \E k \in EntriesOf("A") :
          /\ C9_Eoq(rows[k])
          /\ rows[k].Q_or_S.n * rows[k].Q_or_S.n * C9_Radicand(rows[k]).d
                # C9_Radicand(rows[k]).n
    /\ \E k \in EntriesOf("A") :
          rows[k].base.Costo_unitario.nan /\ rows[k].Q_or_S.n > 1

\* cell texts that are empty or do not parse
C10_Unparseable == {<<>>, <<" ">>, <<"a", "b", "c">>}

\* C10: after prepare_df every Dia_ cell is a number >= 0, an empty or
\* unparseable one exactly 0, so every mean and total is >= 0; an unparseable
\* cost, lead-time or stock cell is missing (NaN), not 0.
C10_DemandNonNegative ==
    \A k \in DOMAIN df_prep :
        LET raw == sheet.data[k]
            r == df_prep[k]
        IN  /\ \A j \in DOMAIN r.dias :
                  /\ ~r.dias[j].nan /\ r.dias[j].n >= 0
                  /\ raw.dias[j] \in C10_Unparseable => r.dias[j] = Num(0)
            /\ r.d_Promedio.n >= 0 /\ r.total_mes.n >= 0
            /\ (sheet.cols.Costo_unitario /\ raw.Costo_unitario \in C10_Unparseable)
                  => r.Costo_unitario.nan
            /\ (sheet.cols.Lead_Time /\ raw.Lead_Time \in C10_Unparseable)
                  => r.Lead_Time.nan
            /\ (sheet.cols.Stock_actual /\ raw.Stock_actual \in C10_Unparseable)
                  => r.Stock_actual.nan
====
